---- MODULE Spec2Model ----
(***************************************************************************)
(* Incremental-review hunk reconciliation of ai-code-review.               *)
(*                                                                         *)
(*   patch-utils  (hunksOverlap, reconstructPatch, filterPatchHunks)       *)
(*   input-processor.js  (_processChangedFiles, _excludeMergeOnlyChanges,  *)
(*                        _filterChangedFiles)                             *)
(*                                                                         *)
(* Five specifications share the module:                                   *)
(*   SpecOverlap  hunksOverlap applied to two hunks                        *)
(*   SpecFilter   filterPatchHunks applied to two patch texts              *)
(*   SpecMarker   the base-commit resolution of _processChangedFiles       *)
(*   SpecRoundTrip  reconstructPatch followed by parsePatch                *)
(*   Spec         one run of _processChangedFiles                          *)
(***************************************************************************)
EXTENDS Integers, Sequences, FiniteSets, TLC

\* ------------------------------------------------------------------ bounds
\* largest newStart of a generated hunk
MaxStart == 3
\* largest newLines of a generated hunk (0 = no line on the new side)
MaxLines == 2
\* most hunks in one generated patch text
MaxHunks == 2
\* most comments in the pull request's comment history
MaxComments == 2
\* most files in one change set
MaxFiles == 2

\* ------------------------------------------------------------- hunk model
\* A hunk as the diff library hands it over: the four header numbers and the
\* body lines, each body line carrying its +, - or space prefix.
Hunk(os, ol, ns, nl, ls) ==
    [oldStart |-> os, oldLines |-> ol, newStart |-> ns, newLines |-> nl, lines |-> ls]

RECURSIVE Repeat(_, _)
Repeat(x, n) == IF n = 0 THEN <<>> ELSE <<x>> \o Repeat(x, n - 1)

\* Hunk of an incremental diff: one removed line, nl added lines.
IncHunk(ns, nl) == Hunk(ns, 1, ns, nl, <<"-old">> \o Repeat("+new", nl))

\* Hunk of a whole-PR diff: nl added lines, or one removed line when nl = 0.
RefHunk(ns, nl) ==
    IF nl = 0 THEN Hunk(ns, 1, ns, 0, <<"-base">>)
              ELSE Hunk(ns, 0, ns, nl, Repeat("+pr", nl))

\* Hunk with one context line, its old range one line further down.
CtxHunk(ns, nl) == Hunk(ns + 1, 1, ns, nl + 1, <<" ctx">> \o Repeat("+new", nl))

IncHunks == { IncHunk(ns, nl) : ns \in 1..MaxStart, nl \in 0..MaxLines }
RefHunks == { RefHunk(ns, nl) : ns \in 1..MaxStart, nl \in 0..MaxLines }

NoHunk == Hunk(0, 0, 0, 0, <<>>)

\* ------------------------------------------------------------ hunksOverlap
\* mutant: strict comparison on the first bound
hunksOverlap_strict(hunk1, hunk2) ==
    LET h1Start == hunk1.newStart
        h1End   == hunk1.newStart + hunk1.newLines - 1
        h2Start == hunk2.newStart
        h2End   == hunk2.newStart + hunk2.newLines - 1
    IN  h1Start < h2End /\ h2Start <= h1End

\* mutant: second bound compared with the start of hunk1, not its end
hunksOverlap_startOnly(hunk1, hunk2) ==
    LET h1Start == hunk1.newStart
        h2Start == hunk2.newStart
        h2End   == hunk2.newStart + hunk2.newLines - 1
    IN  h1Start <= h2End /\ h2Start <= h1Start

\* mutant: a hunk without new lines is widened to the single point newStart
hunksOverlap_point(hunk1, hunk2) ==
    LET h1Start == hunk1.newStart
        h1End   == IF hunk1.newLines = 0 THEN hunk1.newStart
                   ELSE hunk1.newStart + hunk1.newLines - 1
        h2Start == hunk2.newStart
        h2End   == IF hunk2.newLines = 0 THEN hunk2.newStart
                   ELSE hunk2.newStart + hunk2.newLines - 1
    IN  h1Start <= h2End /\ h2Start <= h1End

hunksOverlap(hunk1, hunk2) ==
    LET h1Start == hunk1.newStart
        h1End   == hunk1.newStart + hunk1.newLines - 1
        h2Start == hunk2.newStart
        h2End   == hunk2.newStart + hunk2.newLines - 1
    IN  h1Start <= h2End /\ h2Start <= h1End

\* ------------------------------------------------------------- patch text
\* A patch string is its sequence of lines (split at line breaks); the JS null
\* or undefined is the text with null = TRUE.  A line is a hunk header
\* "@@ -oldStart,oldLines +newStart,newLines @@" (k = "hdr"), a line that opens
\* with @@ without the line-range syntax (k = "bad"), a body line with its
\* +, - or space prefix (k = "body"), or the ---/+++ header of a file section
\* (k = "file").
Line(k, os, ol, ns, nl, t) ==
    [k |-> k, oldStart |-> os, oldLines |-> ol, newStart |-> ns, newLines |-> nl, text |-> t]

HeaderLine(os, ol, ns, nl) == Line("hdr", os, ol, ns, nl, "")
BodyLine(t) == Line("body", 0, 0, 0, 0, t)
BadHeaderLine == Line("bad", 0, 0, 0, 0, "@@ ?")
FileLine == Line("file", 0, 0, 0, 0, "--- +++")

Text(ls) == [null |-> FALSE, lines |-> ls]
NullText == [null |-> TRUE, lines |-> <<>>]
EmptyText == Text(<<>>)

\* JS truthiness of a patch value: null, undefined and "" are falsy
Falsy(t) == t.null \/ t.lines = <<>>

\* ----------------------------------------------------------- reconstructPatch
RECURSIVE BodyLines(_)
BodyLines(ls) == IF ls = <<>> THEN <<>> ELSE <<BodyLine(Head(ls))>> \o BodyLines(Tail(ls))

\* mutant: the header names the new range first and the old range second
HunkBlock_swapped(hunk) ==
    <<HeaderLine(hunk.newStart, hunk.newLines, hunk.oldStart, hunk.oldLines)>>
        \o BodyLines(hunk.lines)

\* [header, ...lines].join("\n") of one hunk
HunkBlock(hunk) ==
    <<HeaderLine(hunk.oldStart, hunk.oldLines, hunk.newStart, hunk.newLines)>>
        \o BodyLines(hunk.lines)

RECURSIVE JoinBlocks(_)
JoinBlocks(hunks) ==
    IF hunks = <<>> THEN <<>> ELSE HunkBlock(Head(hunks)) \o JoinBlocks(Tail(hunks))

reconstructPatch(hunks) == Text(JoinBlocks(hunks))

\* ------------------------------------------------------------------ parsePatch
\* The parser of the diff library, as the specification describes it: one entry
\* per file section, each with its hunks; null or empty text gives one entry
\* without hunks; a header outside the line-range syntax fails.
ParseStart == [files |-> <<>>, hunks |-> <<>>, header |-> FALSE]

ParseStep(st, line) ==
    CASE line.k = "file" ->
            IF ~st.header /\ st.hunks = <<>>
            THEN [st EXCEPT !.header = TRUE]
            ELSE [files |-> Append(st.files, [hunks |-> st.hunks]),
                  hunks |-> <<>>, header |-> TRUE]
      [] line.k = "hdr" ->
            [st EXCEPT !.hunks = Append(@, Hunk(line.oldStart, line.oldLines,
                                                line.newStart, line.newLines, <<>>))]
      [] line.k = "body" ->
            IF st.hunks = <<>> THEN st
            ELSE [st EXCEPT !.hunks[Len(st.hunks)].lines = Append(@, line.text)]
      [] OTHER -> st

RECURSIVE ParseLines(_, _)
ParseLines(st, ls) ==
    IF ls = <<>> THEN Append(st.files, [hunks |-> st.hunks])
    ELSE ParseLines(ParseStep(st, Head(ls)), Tail(ls))

Malformed(t) == \E i \in 1..Len(t.lines) : t.lines[i].k = "bad"

parsePatch(t) ==
    IF Malformed(t) THEN [threw |-> TRUE, files |-> <<>>]
    ELSE [threw |-> FALSE, files |-> ParseLines(ParseStart, t.lines)]

\* ------------------------------------------------------------ filterPatchHunks
RECURSIVE Filter(_, _, _)
\* Array.prototype.filter from index i on; keep[i] is the callback's answer
\* for s[i]
Filter(s, i, keep) ==
    IF i > Len(s) THEN <<>>
    ELSE (IF keep[i] THEN <<s[i]>> ELSE <<>>) \o Filter(s, i + 1, keep)

Returned(t) == [threw |-> FALSE, patch |-> t]
Thrown == [threw |-> TRUE, patch |-> NullText]

\* wholePRHunks.some((prHunk) => hunksOverlap(incHunk, prHunk))
SomeOverlap(incHunk, wholePRHunks) ==
    \E j \in 1..Len(wholePRHunks) : hunksOverlap(incHunk, wholePRHunks[j])

\* mutant: the i-th incremental hunk is compared with the i-th reference hunk
filterPatchHunks_positional(incrementalPatch, wholePRPatch) ==
    IF Falsy(incrementalPatch) THEN Returned(NullText)
    ELSE LET incrementalPatches == parsePatch(incrementalPatch)
             wholePRPatches == parsePatch(wholePRPatch)
         IN  IF incrementalPatches.threw \/ wholePRPatches.threw THEN Thrown
             ELSE IF Len(incrementalPatches.files) = 0
                     \/ Len(incrementalPatches.files[1].hunks) = 0
             THEN Returned(incrementalPatch)
             ELSE IF Len(wholePRPatches.files) = 0
                     \/ Len(wholePRPatches.files[1].hunks) = 0
             THEN Returned(NullText)
             ELSE LET incrementalHunks == incrementalPatches.files[1].hunks
                      wholePRHunks == wholePRPatches.files[1].hunks
                      hasOverlap == [i \in 1..Len(incrementalHunks) |->
                                        i <= Len(wholePRHunks)
                                        /\ hunksOverlap(incrementalHunks[i], wholePRHunks[i])]
                      filteredHunks == Filter(incrementalHunks, 1, hasOverlap)
                  IN  IF Len(filteredHunks) = 0 THEN Returned(NullText)
                      ELSE Returned(reconstructPatch(filteredHunks))

\* mutant: an empty or null incremental patch is handed back as it came
filterPatchHunks_emptyAsIs(incrementalPatch, wholePRPatch) ==
    IF Falsy(incrementalPatch) THEN Returned(incrementalPatch)
    ELSE LET incrementalPatches == parsePatch(incrementalPatch)
             wholePRPatches == parsePatch(wholePRPatch)
         IN  IF incrementalPatches.threw \/ wholePRPatches.threw THEN Thrown
             ELSE IF Len(incrementalPatches.files) = 0
                     \/ Len(incrementalPatches.files[1].hunks) = 0
             THEN Returned(incrementalPatch)
             ELSE IF Len(wholePRPatches.files) = 0
                     \/ Len(wholePRPatches.files[1].hunks) = 0
             THEN Returned(NullText)
             ELSE LET incrementalHunks == incrementalPatches.files[1].hunks
                      wholePRHunks == wholePRPatches.files[1].hunks
                      hasOverlap == [i \in 1..Len(incrementalHunks) |->
                                        SomeOverlap(incrementalHunks[i], wholePRHunks)]
                      filteredHunks == Filter(incrementalHunks, 1, hasOverlap)
                  IN  IF Len(filteredHunks) = 0 THEN Returned(NullText)
                      ELSE Returned(reconstructPatch(filteredHunks))

\* mutant: a reference without hunks leaves the incremental patch untouched
filterPatchHunks_noRefCheck(incrementalPatch, wholePRPatch) ==
    IF Falsy(incrementalPatch) THEN Returned(NullText)
    ELSE LET incrementalPatches == parsePatch(incrementalPatch)
             wholePRPatches == parsePatch(wholePRPatch)
         IN  IF incrementalPatches.threw \/ wholePRPatches.threw THEN Thrown
             ELSE IF Len(incrementalPatches.files) = 0
                     \/ Len(incrementalPatches.files[1].hunks) = 0
             THEN Returned(incrementalPatch)
             ELSE IF Len(wholePRPatches.files) = 0
                     \/ Len(wholePRPatches.files[1].hunks) = 0
             THEN Returned(incrementalPatch)
             ELSE LET incrementalHunks == incrementalPatches.files[1].hunks
                      wholePRHunks == wholePRPatches.files[1].hunks
                      hasOverlap == [i \in 1..Len(incrementalHunks) |->
                                        SomeOverlap(incrementalHunks[i], wholePRHunks)]
                      filteredHunks == Filter(incrementalHunks, 1, hasOverlap)
                  IN  IF Len(filteredHunks) = 0 THEN Returned(NullText)
                      ELSE Returned(reconstructPatch(filteredHunks))

\* Returns [threw, patch]: patch is the returned string, NullText for null;
\* threw = TRUE when parsePatch raised (nothing in the function catches it).
filterPatchHunks(incrementalPatch, wholePRPatch) ==
    IF Falsy(incrementalPatch) THEN Returned(NullText)
    ELSE LET incrementalPatches == parsePatch(incrementalPatch)
             wholePRPatches == parsePatch(wholePRPatch)
         IN  IF incrementalPatches.threw \/ wholePRPatches.threw THEN Thrown
             ELSE IF Len(incrementalPatches.files) = 0
                     \/ Len(incrementalPatches.files[1].hunks) = 0
             THEN Returned(incrementalPatch)
             ELSE IF Len(wholePRPatches.files) = 0
                     \/ Len(wholePRPatches.files[1].hunks) = 0
             THEN Returned(NullText)
             ELSE LET incrementalHunks == incrementalPatches.files[1].hunks
                      wholePRHunks == wholePRPatches.files[1].hunks
                      hasOverlap == [i \in 1..Len(incrementalHunks) |->
                                        SomeOverlap(incrementalHunks[i], wholePRHunks)]
                      filteredHunks == Filter(incrementalHunks, 1, hasOverlap)
                  IN  IF Len(filteredHunks) = 0 THEN Returned(NullText)
                      ELSE Returned(reconstructPatch(filteredHunks))

\* ------------------------------------------------------- generated patch texts
\* Hunk sequences in the order a diff lists them: ascending newStart.
RECURSIVE HunkSeqs(_, _)
HunkSeqs(H, n) ==
    IF n = 0 THEN { <<>> }
    ELSE LET shorter == HunkSeqs(H, n - 1)
         IN  shorter \cup
             { Append(s, h) : s \in { x \in shorter : Len(x) = n - 1 }, h \in H }

Ascending(s) == \A i \in 1..(Len(s) - 1) : s[i].newStart < s[i + 1].newStart

PatchTexts(H) ==
    { reconstructPatch(s) : s \in { x \in HunkSeqs(H, MaxHunks) : x # <<>> /\ Ascending(x) } }

FileOnlyText == Text(<<FileLine>>)
BadText == Text(<<BadHeaderLine>>)
\* two file sections in one text; only the first one counts
TwoFileText ==
    Text(<<FileLine>> \o HunkBlock(IncHunk(1, 1)) \o <<FileLine>> \o HunkBlock(IncHunk(2, 1)))

IncTexts == PatchTexts(IncHunks) \cup {NullText, EmptyText, FileOnlyText, BadText, TwoFileText}
RefTexts == PatchTexts(RefHunks) \cup {NullText, EmptyText, FileOnlyText, BadText}

\* ------------------------------------------------------- review marker
\* A comment body is a sequence of symbols: the two constants of ./constants
\* taken whole, the space, the line break, and other characters.
AI_REVIEW_COMMENT_PREFIX == "PFX"
SUMMARY_SEPARATOR == "SEP"
Space == "SP"
LineBreak == "NL"
Whitespace == {Space, LineBreak}

\* commit ids of the pull request (pullRequestData.base.sha, .head.sha)
BaseCommit == <<"a">>
HeadCommit == <<"h">>

\* s.split(sym)[0]: the part of s before the first sym
RECURSIVE SplitFirst(_, _)
SplitFirst(s, sym) ==
    IF s = <<>> \/ Head(s) = sym THEN <<>>
    ELSE <<Head(s)>> \o SplitFirst(Tail(s), sym)

\* s.replace(sym, ""): s without the first occurrence of sym
RECURSIVE RemoveFirst(_, _)
RemoveFirst(s, sym) ==
    IF s = <<>> THEN <<>>
    ELSE IF Head(s) = sym THEN Tail(s)
    ELSE <<Head(s)>> \o RemoveFirst(Tail(s), sym)

RECURSIVE TrimStart(_)
TrimStart(s) ==
    IF s # <<>> /\ Head(s) \in Whitespace THEN TrimStart(Tail(s)) ELSE s

RECURSIVE TrimEnd(_)
TrimEnd(s) ==
    IF s # <<>> /\ s[Len(s)] \in Whitespace THEN TrimEnd(SubSeq(s, 1, Len(s) - 1)) ELSE s

\* s.trim()
Trim(s) == TrimEnd(TrimStart(s))

\* c.body && c.body.startsWith(AI_REVIEW_COMMENT_PREFIX)
IsReviewComment(body) == body # <<>> /\ Head(body) = AI_REVIEW_COMMENT_PREFIX

\* mutant: the first matching comment instead of the last (no reverse())
lastReviewComment_first(comments) ==
    LET matching == { i \in 1..Len(comments) : IsReviewComment(comments[i]) }
    IN  IF matching = {} THEN 0
        ELSE CHOOSE i \in matching : \A j \in matching : i <= j

\* [...comments].reverse().find(...): index of the last matching comment, 0 if
\* there is none
lastReviewComment(comments) ==
    LET matching == { i \in 1..Len(comments) : IsReviewComment(comments[i]) }
    IN  IF matching = {} THEN 0
        ELSE CHOOSE i \in matching : \A j \in matching : j <= i

newBaseCommit(body) ==
    Trim(SplitFirst(RemoveFirst(SplitFirst(body, SUMMARY_SEPARATOR),
                                AI_REVIEW_COMMENT_PREFIX),
                    Space))

\* the value of incrementalBaseCommit when the changed files are fetched
incrementalBase(comments, originalPRBase) ==
    LET last == lastReviewComment(comments)
    IN  IF last = 0 THEN originalPRBase
        ELSE IF newBaseCommit(comments[last]) # <<>> THEN newBaseCommit(comments[last])
        ELSE originalPRBase

\* mutant: every run reconciles against the whole pull request
isIncremental_always(incrementalBaseCommit, originalPRBase) == TRUE

\* mutant: === in place of !==
isIncremental_inverted(incrementalBaseCommit, originalPRBase) ==
    incrementalBaseCommit = originalPRBase

\* incrementalBaseCommit !== originalPRBase
isIncremental(incrementalBaseCommit, originalPRBase) ==
    incrementalBaseCommit # originalPRBase

\* comment bodies of the history
Bodies ==
    { <<>>,
      <<"x">>,
      <<"x", "PFX", "b">>,
      <<"PFX", "a">>,
      <<"PFX", "b">>,
      <<"PFX", "c", "SP", "x">>,
      <<"PFX">>,
      <<"PFX", "SP", "b">>,
      <<"PFX", "b", "NL", "x">>,
      <<"PFX", "b", "NL", "SP", "x">>,
      <<"PFX", "NL", "c">>,
      <<"PFX", "b", "SEP", "x">>,
      <<"PFX", "SEP", "b">> }

RECURSIVE Histories(_)
Histories(n) ==
    IF n = 0 THEN { <<>> }
    ELSE LET shorter == Histories(n - 1)
         IN  shorter \cup
             { Append(h, b) : h \in { x \in shorter : Len(x) = n - 1 }, b \in Bodies }

\* ------------------------------------------------------------- change sets
\* A filename is kept in parts: its directory prefix, base name and extension.
FileName(dir, base, ext) == [dir |-> dir, base |-> base, ext |-> ext]

FileNames ==
    << FileName("legacy/", "b", ".py"),
       FileName("src/", "a", ".js"),
       FileName("src/", "c", ".py") >>

\* one entry of a change set, as getFilesBetweenCommits returns it
FileEntry(filename, status, patch) ==
    [filename |-> filename, status |-> status, patch |-> patch]

\* patches of the incremental change set
IncFilePatches ==
    { NullText, EmptyText, FileOnlyText, BadText,
      reconstructPatch(<<IncHunk(1, 1)>>),
      reconstructPatch(<<IncHunk(1, 1), IncHunk(3, 1)>>) }

\* patches of the whole-PR change set
PRFilePatches ==
    { NullText, EmptyText, BadText, reconstructPatch(<<RefHunk(3, 1)>>) }

\* sequences of at most n entries with pairwise different filenames
RECURSIVE ChangeSets(_, _, _)
ChangeSets(n, status, patches) ==
    IF n = 0 THEN { <<>> }
    ELSE LET shorter == ChangeSets(n - 1, status, patches)
         IN  shorter \cup
             { Append(cs, FileEntry(FileNames[k], status, p)) :
                 cs \in { x \in shorter : Len(x) = n - 1 },
                 k \in 1..Len(FileNames),
                 p \in patches }

Distinct(cs) ==
    \A i, j \in 1..Len(cs) : i # j => cs[i].filename # cs[j].filename

\* the host lists the files of a comparison by filename
ByName(cs) ==
    \A i \in 1..(Len(cs) - 1) :
        \E k, l \in 1..Len(FileNames) :
            /\ k < l /\ FileNames[k] = cs[i].filename /\ FileNames[l] = cs[i + 1].filename

IncrementalSets == { cs \in ChangeSets(MaxFiles, "modified", IncFilePatches) : Distinct(cs) }
WholePRSets == { cs \in ChangeSets(MaxFiles, "added", PRFilePatches) : ByName(cs) }

\* ------------------------------------------------- _excludeMergeOnlyChanges
\* new Map(wholePRFiles.map(f => [f.filename, f])).get(filename): index of the
\* last entry with that filename, 0 if there is none
MapGet(wholePRFiles, filename) ==
    LET hits == { i \in 1..Len(wholePRFiles) : wholePRFiles[i].filename = filename }
    IN  IF hits = {} THEN 0 ELSE CHOOSE i \in hits : \A j \in hits : j <= i

\* mutant: a file without a whole-PR entry is kept as it is
mapFile_keepMissing(incFile, wholePRFiles) ==
    LET k == MapGet(wholePRFiles, incFile.filename)
    IN  IF k = 0 THEN [threw |-> FALSE, dropped |-> FALSE, file |-> incFile]
        ELSE LET filteredPatch == filterPatchHunks(incFile.patch, wholePRFiles[k].patch)
             IN  IF filteredPatch.threw
                 THEN [threw |-> TRUE, dropped |-> TRUE, file |-> incFile]
                 ELSE IF Falsy(filteredPatch.patch)
                 THEN [threw |-> FALSE, dropped |-> TRUE, file |-> incFile]
                 ELSE [threw |-> FALSE, dropped |-> FALSE,
                       file |-> [incFile EXCEPT !.patch = filteredPatch.patch]]

\* mutant: a null from filterPatchHunks is put into the entry instead of
\* dropping the file
mapFile_keepNull(incFile, wholePRFiles) ==
    LET k == MapGet(wholePRFiles, incFile.filename)
    IN  IF k = 0 THEN [threw |-> FALSE, dropped |-> TRUE, file |-> incFile]
        ELSE LET filteredPatch == filterPatchHunks(incFile.patch, wholePRFiles[k].patch)
             IN  IF filteredPatch.threw
                 THEN [threw |-> TRUE, dropped |-> TRUE, file |-> incFile]
                 ELSE [threw |-> FALSE, dropped |-> FALSE,
                       file |-> [incFile EXCEPT !.patch = filteredPatch.patch]]

\* the callback of changedFiles.map: dropped stands for the returned null,
\* threw for an exception of filterPatchHunks passing through
mapFile(incFile, wholePRFiles) ==
    LET k == MapGet(wholePRFiles, incFile.filename)
    IN  IF k = 0 THEN [threw |-> FALSE, dropped |-> TRUE, file |-> incFile]
        ELSE LET filteredPatch == filterPatchHunks(incFile.patch, wholePRFiles[k].patch)
             IN  IF filteredPatch.threw
                 THEN [threw |-> TRUE, dropped |-> TRUE, file |-> incFile]
                 ELSE IF Falsy(filteredPatch.patch)
                 THEN [threw |-> FALSE, dropped |-> TRUE, file |-> incFile]
                 ELSE [threw |-> FALSE, dropped |-> FALSE,
                       file |-> [incFile EXCEPT !.patch = filteredPatch.patch]]

RECURSIVE KeepMapped(_)
\* .filter((f) => f !== null)
KeepMapped(mapped) ==
    IF mapped = <<>> THEN <<>>
    ELSE (IF Head(mapped).dropped THEN <<>> ELSE <<Head(mapped).file>>)
             \o KeepMapped(Tail(mapped))

\* [threw, files]: threw = TRUE when filterPatchHunks raised for some file,
\* which ends the map and the method
excludeMergeOnlyChanges(changedFiles, wholePRFiles) ==
    LET mapped == [i \in 1..Len(changedFiles) |-> mapFile(changedFiles[i], wholePRFiles)]
    IN  IF \E i \in 1..Len(mapped) : mapped[i].threw
        THEN [threw |-> TRUE, files |-> <<>>]
        ELSE [threw |-> FALSE, files |-> KeepMapped(mapped)]

\* ------------------------------------------------------ _filterChangedFiles
\* the four inputs after toArray: lists of extensions and of path prefixes
Config(incExt, excExt, incPath, excPath) ==
    [includeExtensions |-> incExt, excludeExtensions |-> excExt,
     includePaths |-> incPath, excludePaths |-> excPath]

Configs ==
    { Config({}, {}, {}, {}),
      Config({".js"}, {}, {"src/"}, {}),
      Config({}, {".py"}, {}, {"legacy/"}) }

\* filePath.startsWith(p) for a directory prefix p
StartsWith(filename, p) == filename.dir = p

shouldReview(file, cfg) ==
    LET ext == file.filename.ext
        extAllowed == cfg.includeExtensions = {} \/ ext \in cfg.includeExtensions
        extExcluded == ext \in cfg.excludeExtensions
        inAllowedPath ==
            cfg.includePaths = {} \/ \E q \in cfg.includePaths : StartsWith(file.filename, q)
        inExcludedPath == \E q \in cfg.excludePaths : StartsWith(file.filename, q)
    IN  extAllowed /\ ~extExcluded /\ inAllowedPath /\ ~inExcludedPath

RECURSIVE filterChangedFiles(_, _)
filterChangedFiles(changedFiles, cfg) ==
    IF changedFiles = <<>> THEN <<>>
    ELSE (IF shouldReview(Head(changedFiles), cfg) THEN <<Head(changedFiles)>> ELSE <<>>)
             \o filterChangedFiles(Tail(changedFiles), cfg)

\* ------------------------------------------------------------------ state
VARIABLES
    \* SpecOverlap
    hunkA, hunkB, ovAB, ovBA, ovAA, ovPc,
    \* SpecFilter
    incText, refText, filterRet, filterPc,
    \* SpecMarker
    comments, resolvedBase, markerPc,
    \* Spec: one run of _processChangedFiles
    pc,                     \* where the run stands
    error,                  \* what ended the run early, "none" otherwise
    config,                 \* the include/exclude inputs
    incrementalBaseCommit,  \* local of _processChangedFiles
    lastReviewFound,        \* whether lastReviewComment is set
    fetchLog,               \* the (base, head) pairs asked of getFilesBetweenCommits
    incrementalFiles,       \* what the first fetch returned
    wholePRFiles,           \* what the second fetch returned
    changedFiles,           \* local of _processChangedFiles
    filteredDiffs,          \* this._filteredDiffs
    \* SpecRoundTrip
    rtHunks, rtText, rtParsed, rtPc

ovVars == <<hunkA, hunkB, ovAB, ovBA, ovAA, ovPc>>
flVars == <<incText, refText, filterRet, filterPc>>
mkVars == <<comments, resolvedBase, markerPc>>
runVars == <<pc, error, config, incrementalBaseCommit, lastReviewFound, fetchLog,
             incrementalFiles, wholePRFiles, changedFiles, filteredDiffs>>
rtVars == <<rtHunks, rtText, rtParsed, rtPc>>
otherVars == <<ovVars, flVars, mkVars, rtVars>>
vars == <<ovVars, flVars, mkVars, runVars, rtVars>>

\* ------------------------------------------------------------ idle parts
FilterIdle ==
    /\ incText = NullText /\ refText = NullText
    /\ filterRet = Returned(NullText)
    /\ filterPc = "idle"

RoundTripIdle ==
    /\ rtHunks = <<>>
    /\ rtText = NullText
    /\ rtParsed = [threw |-> FALSE, files |-> <<>>]
    /\ rtPc = "idle"

MarkerIdle ==
    /\ comments = <<>>
    /\ resolvedBase = <<>>
    /\ markerPc = "idle"

RunIdle ==
    /\ pc = "idle" /\ error = "none"
    /\ config = Config({}, {}, {}, {})
    /\ incrementalBaseCommit = <<>>
    /\ lastReviewFound = FALSE
    /\ fetchLog = <<>>
    /\ incrementalFiles = <<>> /\ wholePRFiles = <<>>
    /\ changedFiles = <<>> /\ filteredDiffs = <<>>

\* ------------------------------------------------------------ SpecOverlap
OverlapIdle ==
    /\ hunkA = NoHunk /\ hunkB = NoHunk
    /\ ovAB = FALSE /\ ovBA = FALSE /\ ovAA = FALSE
    /\ ovPc = "idle"

OverlapInputs ==
    /\ hunkA \in IncHunks
    /\ hunkB \in RefHunks
    /\ ovAB = FALSE /\ ovBA = FALSE /\ ovAA = FALSE
    /\ ovPc = "call"

\* hunksOverlap is called on (a, b), on (b, a) and on (a, a)
CallOverlap ==
    /\ ovPc = "call"
    /\ ovAB' = hunksOverlap(hunkA, hunkB)
    /\ ovBA' = hunksOverlap(hunkB, hunkA)
    /\ ovAA' = hunksOverlap(hunkA, hunkA)
    /\ ovPc' = "done"
    /\ UNCHANGED <<hunkA, hunkB, flVars, mkVars, runVars, rtVars>>

NextOverlap == CallOverlap

InitOverlap == OverlapInputs /\ FilterIdle /\ MarkerIdle /\ RunIdle /\ RoundTripIdle

SpecOverlap == InitOverlap /\ [][NextOverlap]_vars

\* p lies in the closed new-file range [newStart, newStart + newLines - 1] of h
InRange(h, p) == h.newStart <= p /\ p <= h.newStart + h.newLines - 1

\* h lies next to the point p without containing it
AdjacentTo(h, p) ==
    \/ h.newStart + h.newLines - 1 = p - 1
    \/ h.newStart = p + 1

\* C10: hunksOverlap(a, b) = hunksOverlap(b, a) for all hunks a and b, the
\* hunks with newLines = 0 included.
C10_OverlapSymmetric == ovPc = "done" => ovAB = ovBA

\* C10 witness: an overlapping pair one of which has no new lines
C10_Witness == ovPc = "done" /\ hunkA.newLines = 0 /\ ovAB /\ ovBA

\* C6: hunksOverlap(a, a) holds for every hunk with newLines >= 1, and a hunk a
\* with newLines = 0 overlaps only hunks b whose new-file range includes
\* a.newStart.
C6_Reflexive ==
    ovPc = "done" =>
        /\ hunkA.newLines >= 1 => ovAA
        /\ (hunkA.newLines = 0 /\ ovAB) => InRange(hunkB, hunkA.newStart)

\* C6 witness: a hunk without new lines that overlaps another hunk
C6_Witness == ovPc = "done" /\ hunkA.newLines = 0 /\ ovAB

\* C5 as claimed: a hunk with newLines = 0 is the single point newStart; it
\* overlaps every reference hunk whose closed range contains that point and no
\* reference hunk that is merely adjacent to it.
C5_PointSemantics ==
    (ovPc = "done" /\ hunkA.newLines = 0) =>
        /\ InRange(hunkB, hunkA.newStart) => ovAB
        /\ AdjacentTo(hunkB, hunkA.newStart) => ~ovAB

\* C5 as amended: a hunk with newLines = 0 has the empty range
\* [newStart, newStart - 1]; it overlaps a reference hunk exactly when the
\* reference's closed range contains both newStart - 1 and newStart, so a
\* reference hunk that starts at newStart, or is adjacent, does not overlap.
C5_BoundaryInside ==
    (ovPc = "done" /\ hunkA.newLines = 0) =>
        /\ ovAB <=> (InRange(hunkB, hunkA.newStart - 1) /\ InRange(hunkB, hunkA.newStart))
        /\ hunkB.newStart = hunkA.newStart => ~ovAB
        /\ AdjacentTo(hunkB, hunkA.newStart) => ~ovAB

\* C5 witness: the reference range starts at the boundary point and the
\* predicate says no overlap
C5_Witness ==
    /\ ovPc = "done" /\ hunkA.newLines = 0
    /\ hunkB.newLines >= 1 /\ hunkB.newStart = hunkA.newStart
    /\ ~ovAB

\* ------------------------------------------------------------- SpecFilter
FilterInputs ==
    /\ incText \in IncTexts
    /\ refText \in RefTexts
    /\ filterRet = Returned(NullText)
    /\ filterPc = "call"

CallFilter ==
    /\ filterPc = "call"
    /\ filterRet' = filterPatchHunks(incText, refText)
    /\ filterPc' = "done"
    /\ UNCHANGED <<incText, refText, ovVars, mkVars, runVars, rtVars>>

NextFilter == CallFilter

InitFilter == FilterInputs /\ OverlapIdle /\ MarkerIdle /\ RunIdle /\ RoundTripIdle

SpecFilter == InitFilter /\ [][NextFilter]_vars

\* the hunks of the first file section of a text, <<>> for null
HunksOf(t) ==
    LET p == parsePatch(t)
    IN  IF t.null \/ p.threw \/ Len(p.files) = 0 THEN <<>> ELSE p.files[1].hunks

\* the elements of s at the indices in idx, in ascending index order
RECURSIVE Pick(_, _, _)
Pick(s, idx, i) ==
    IF i > Len(s) THEN <<>>
    ELSE (IF i \in idx THEN <<s[i]>> ELSE <<>>) \o Pick(s, idx, i + 1)

\* indices of the incremental hunks that overlap at least one reference hunk
Validated(inc, ref) ==
    { i \in 1..Len(inc) : \E j \in 1..Len(ref) : hunksOverlap(inc[i], ref[j]) }

\* C1: with at least one hunk on each side, the hunks of the returned patch are
\* exactly the incremental hunks that overlap some reference hunk (any of them,
\* whatever its position), in the incremental order, each once and verbatim;
\* null is returned exactly when there is none.
C1_ExactOverlapSubset ==
    (filterPc = "done" /\ ~filterRet.threw
       /\ HunksOf(incText) # <<>> /\ HunksOf(refText) # <<>>) =>
        LET inc == HunksOf(incText)
            ref == HunksOf(refText)
            kept == Pick(inc, Validated(inc, ref), 1)
        IN  /\ HunksOf(filterRet.patch) = kept
            /\ filterRet.patch.null <=> kept = <<>>

\* C1 witness: two incremental hunks, the first dropped and the second kept
\* because it overlaps the first reference hunk (no positional pairing)
C1_Witness ==
    /\ filterPc = "done" /\ ~filterRet.threw
    /\ Len(HunksOf(incText)) = 2 /\ Len(HunksOf(refText)) = 2
    /\ HunksOf(filterRet.patch) = <<HunksOf(incText)[2]>>
    /\ hunksOverlap(HunksOf(incText)[2], HunksOf(refText)[1])
    /\ ~hunksOverlap(HunksOf(incText)[2], HunksOf(refText)[2])

\* ------------------------------------------------------------- SpecMarker
MarkerInputs ==
    /\ comments \in Histories(MaxComments)
    /\ resolvedBase = <<>>
    /\ markerPc = "call"

ResolveBase ==
    /\ markerPc = "call"
    /\ resolvedBase' = incrementalBase(comments, BaseCommit)
    /\ markerPc' = "done"
    /\ UNCHANGED <<comments, ovVars, flVars, runVars, rtVars>>

NextMarker == ResolveBase

InitMarker == MarkerInputs /\ OverlapIdle /\ FilterIdle /\ RunIdle /\ RoundTripIdle

SpecMarker == InitMarker /\ [][NextMarker]_vars

\* the longest prefix of s without a symbol of stop
RECURSIVE TakeUntil(_, _)
TakeUntil(s, stop) ==
    IF s = <<>> \/ Head(s) \in stop THEN <<>>
    ELSE <<Head(s)>> \o TakeUntil(Tail(s), stop)

\* the comments that carry a marker, by position
Markers(cs) == { i \in 1..Len(cs) : cs[i] # <<>> /\ cs[i][1] = AI_REVIEW_COMMENT_PREFIX }

MostRecentMarker(cs) == CHOOSE i \in Markers(cs) : \A j \in Markers(cs) : j <= i

\* C4 as claimed: the incremental base is the token after the prefix, up to
\* the first whitespace, of the most recent comment that carries a marker; the
\* original base is used only when no comment carries one.
C4_TokenToWhitespace ==
    markerPc = "done" =>
        IF Markers(comments) = {} THEN resolvedBase = BaseCommit
        ELSE resolvedBase = TakeUntil(Tail(comments[MostRecentMarker(comments)]), Whitespace)

\* C4 as amended: the token is the text between the prefix and the first space
\* or summary separator of the most recent marker comment, with surrounding
\* whitespace trimmed; the original base is used when no comment carries a
\* marker or when that token is empty.
C4_TokenToSpace ==
    markerPc = "done" =>
        LET token == IF Markers(comments) = {} THEN <<>>
                     ELSE Trim(TakeUntil(Tail(comments[MostRecentMarker(comments)]),
                                         {Space, SUMMARY_SEPARATOR}))
        IN  resolvedBase = IF token = <<>> THEN BaseCommit ELSE token

\* C4 witness: two marker comments with different tokens, the later one wins
C4_Witness ==
    /\ markerPc = "done"
    /\ Len(comments) = 2
    /\ Markers(comments) = {1, 2}
    /\ resolvedBase = <<"c">>
    /\ newBaseCommit(comments[1]) = <<"b">>

\* ------------------------------------------------------------------- Spec
\* One run of _processChangedFiles.  The run starts after _setupGitHubAPI has
\* stored the base and head commit, and waits three times: for the comments,
\* for the incremental change set and, in an incremental run, for the
\* whole-PR change set.
Request(base, head) == [base |-> base, head |-> head]

InitRun ==
    /\ pc = "listPRComments" /\ error = "none"
    /\ config \in Configs
    /\ incrementalBaseCommit = BaseCommit
    /\ lastReviewFound = FALSE
    /\ fetchLog = <<>>
    /\ incrementalFiles = <<>> /\ wholePRFiles = <<>>
    /\ changedFiles = <<>> /\ filteredDiffs = <<>>

Init == InitRun /\ OverlapIdle /\ FilterIdle /\ MarkerIdle /\ RoundTripIdle

\* listPRComments resolves: the base is worked out and the incremental change
\* set is asked for
CommentsListed ==
    /\ pc = "listPRComments"
    /\ \E cs \in Histories(MaxComments) :
        /\ lastReviewFound' = (lastReviewComment(cs) # 0)
        /\ incrementalBaseCommit' = incrementalBase(cs, BaseCommit)
    /\ fetchLog' = Append(fetchLog, Request(incrementalBaseCommit', HeadCommit))
    /\ pc' = "getIncremental"
    /\ UNCHANGED <<error, config, incrementalFiles, wholePRFiles, changedFiles, filteredDiffs>>
    /\ UNCHANGED otherVars

\* the incremental change set arrives: an incremental run asks for the
\* whole-PR change set, a full review goes on to _filterChangedFiles
IncrementalFetched ==
    /\ pc = "getIncremental"
    /\ \E files \in IncrementalSets :
        /\ incrementalFiles' = files
        /\ changedFiles' = files
        /\ IF isIncremental(incrementalBaseCommit, BaseCommit)
           THEN /\ fetchLog' = Append(fetchLog, Request(BaseCommit, HeadCommit))
                /\ pc' = "getWholePR"
                /\ UNCHANGED filteredDiffs
           ELSE /\ filteredDiffs' = filterChangedFiles(files, config)
                /\ pc' = "done"
                /\ UNCHANGED fetchLog
    /\ UNCHANGED <<error, config, incrementalBaseCommit, lastReviewFound, wholePRFiles>>
    /\ UNCHANGED otherVars

\* the whole-PR change set arrives inside _excludeMergeOnlyChanges: every
\* incremental file is mapped and the method returns, or an exception of
\* parsePatch leaves _processChangedFiles
WholePRFetched ==
    /\ pc = "getWholePR"
    /\ \E files \in WholePRSets :
        /\ wholePRFiles' = files
        /\ LET r == excludeMergeOnlyChanges(changedFiles, files)
           IN  IF r.threw
               THEN /\ pc' = "failed" /\ error' = "MalformedPatch"
                    /\ UNCHANGED changedFiles
               ELSE /\ pc' = "excluded" /\ error' = "none"
                    /\ changedFiles' = r.files
    /\ UNCHANGED <<config, incrementalBaseCommit, lastReviewFound, fetchLog,
                   incrementalFiles, filteredDiffs>>
    /\ UNCHANGED otherVars

\* _processChangedFiles resumes with the result of _excludeMergeOnlyChanges
FilterChanged ==
    /\ pc = "excluded"
    /\ filteredDiffs' = filterChangedFiles(changedFiles, config)
    /\ pc' = "done"
    /\ UNCHANGED <<error, config, incrementalBaseCommit, lastReviewFound, fetchLog,
                   incrementalFiles, wholePRFiles, changedFiles>>
    /\ UNCHANGED otherVars

\* a request to the host fails: the rejection leaves _processChangedFiles
FetchFailed ==
    /\ pc \in {"listPRComments", "getIncremental", "getWholePR"}
    /\ pc' = "failed" /\ error' = "FetchFailure"
    /\ UNCHANGED <<config, incrementalBaseCommit, lastReviewFound, fetchLog,
                   incrementalFiles, wholePRFiles, changedFiles, filteredDiffs>>
    /\ UNCHANGED otherVars

Next ==
    \/ CommentsListed
    \/ IncrementalFetched
    \/ WholePRFetched
    \/ FilterChanged
    \/ FetchFailed

Spec == Init /\ [][Next]_vars

\* ---------------------------------------------------------- claims on Spec
Names(cs) == { cs[i].filename : i \in 1..Len(cs) }

\* the whole-PR change set has arrived and every file went through the map
Reconciled == pc \in {"excluded", "done"} /\ Len(fetchLog) = 2

\* the whole-PR change set has arrived, whatever came of the map
WholePRArrived == Reconciled \/ (pc = "failed" /\ error = "MalformedPatch")

\* the whole-PR entry of an incremental file, by filename (0: none)
Counterpart(f) == MapGet(wholePRFiles, f.filename)

\* parsePatch fails on the incremental or on the whole-PR patch of f
ParseFails(f) ==
    /\ Counterpart(f) # 0
    /\ ~Falsy(f.patch)
    /\ Malformed(f.patch) \/ Malformed(wholePRFiles[Counterpart(f)].patch)

\* C2 as claimed: in an incremental run a file whose incremental patch is empty
\* or null comes back from reconciliation unchanged and stays in the list.
C2_EmptyRetained ==
    Reconciled =>
        \A i \in 1..Len(incrementalFiles) :
            (Falsy(incrementalFiles[i].patch) /\ Counterpart(incrementalFiles[i]) # 0)
                => \E j \in 1..Len(changedFiles) : changedFiles[j] = incrementalFiles[i]

\* C2 as amended: in an incremental run a file whose incremental patch is null
\* or empty is dropped (filterPatchHunks returns null for it); only a non-empty
\* patch text that parses to zero hunks is returned unchanged, and that file
\* stays in the list when it has a whole-PR entry.
C2_EmptyDropped ==
    Reconciled =>
        \A i \in 1..Len(incrementalFiles) :
            LET f == incrementalFiles[i]
            IN  /\ Falsy(f.patch) => f.filename \notin Names(changedFiles)
                /\ (Counterpart(f) # 0 /\ Falsy(f.patch))
                       => filterPatchHunks(f.patch, wholePRFiles[Counterpart(f)].patch)
                              = Returned(NullText)
                /\ (Counterpart(f) # 0 /\ ~Falsy(f.patch) /\ HunksOf(f.patch) = <<>>)
                       => \E j \in 1..Len(changedFiles) : changedFiles[j] = f

\* C2 witness: one file with a null or empty patch and a whole-PR entry was
\* dropped, another with a hunkless non-empty patch was kept
C2_Witness ==
    /\ Reconciled
    /\ \E i, j \in 1..Len(incrementalFiles) :
        /\ Falsy(incrementalFiles[i].patch)
        /\ Counterpart(incrementalFiles[i]) # 0
        /\ incrementalFiles[i].filename \notin Names(changedFiles)
        /\ incrementalFiles[j].patch = FileOnlyText
        /\ incrementalFiles[j].filename \in Names(changedFiles)

\* C3: in an incremental run a file whose incremental or whole-PR patch fails
\* to parse is excluded and nothing else: the run goes on to its file list.
C3_MalformedExcludesOneFile ==
    WholePRArrived =>
        \A i \in 1..Len(incrementalFiles) :
            ParseFails(incrementalFiles[i]) =>
                /\ pc \in {"excluded", "done"}
                /\ incrementalFiles[i].filename \notin Names(changedFiles)

\* C7: when the resolved base is the original base, nothing is reconciled: no
\* second fetch, and the fetched entries reach _filterChangedFiles and the
\* final list exactly as they were fetched.
C7_FullReviewPassThrough ==
    (pc = "done" /\ incrementalBaseCommit = BaseCommit) =>
        /\ changedFiles = incrementalFiles
        /\ wholePRFiles = <<>>
        /\ fetchLog = <<Request(BaseCommit, HeadCommit)>>
        /\ \A j \in 1..Len(filteredDiffs) :
               \E i \in 1..Len(incrementalFiles) : filteredDiffs[j] = incrementalFiles[i]

\* C7 witness: a marker was found but the base is the original one, and a
\* two-hunk patch that reconciliation would trim is in the final list
C7_Witness ==
    /\ pc = "done" /\ incrementalBaseCommit = BaseCommit /\ lastReviewFound
    /\ \E j \in 1..Len(filteredDiffs) : Len(HunksOf(filteredDiffs[j].patch)) = 2

\* C8: in an incremental run a file of the incremental change set without a
\* whole-PR entry of the same filename is in neither the reconciled nor the
\* final list, whatever its patch.
C8_MergeOnlyFileAbsent ==
    WholePRArrived =>
        \A i \in 1..Len(incrementalFiles) :
            Counterpart(incrementalFiles[i]) = 0 =>
                /\ incrementalFiles[i].filename \notin Names(filteredDiffs)
                /\ Reconciled => incrementalFiles[i].filename \notin Names(changedFiles)

\* C8 witness: a file with two hunks and no whole-PR entry is gone from a
\* final list that holds another file
C8_Witness ==
    /\ pc = "done" /\ Reconciled
    /\ filteredDiffs # <<>>
    /\ \E i \in 1..Len(incrementalFiles) :
        /\ Counterpart(incrementalFiles[i]) = 0
        /\ Len(HunksOf(incrementalFiles[i].patch)) = 2

\* C9: an incremental patch with at least one hunk against a whole-PR entry
\* without hunks (its patch null or empty included) makes filterPatchHunks
\* return null without raising, and the file is dropped.
C9_NoReferenceHunks ==
    WholePRArrived =>
        \A i \in 1..Len(incrementalFiles) :
            LET f == incrementalFiles[i]
                k == Counterpart(f)
            IN  (/\ k # 0
                 /\ HunksOf(f.patch) # <<>>
                 /\ ~Malformed(wholePRFiles[k].patch)
                 /\ HunksOf(wholePRFiles[k].patch) = <<>>)
                    => /\ filterPatchHunks(f.patch, wholePRFiles[k].patch) = Returned(NullText)
                       /\ Reconciled => f.filename \notin Names(changedFiles)
                       /\ f.filename \notin Names(filteredDiffs)

\* C9 witness: a run that reached its end with a hunk-bearing file whose
\* whole-PR entry has a null patch, and another with an empty one
C9_Witness ==
    /\ pc = "done" /\ Reconciled
    /\ \E i, j \in 1..Len(incrementalFiles) :
        /\ HunksOf(incrementalFiles[i].patch) # <<>>
        /\ Counterpart(incrementalFiles[i]) # 0
        /\ wholePRFiles[Counterpart(incrementalFiles[i])].patch = NullText
        /\ HunksOf(incrementalFiles[j].patch) # <<>>
        /\ Counterpart(incrementalFiles[j]) # 0
        /\ wholePRFiles[Counterpart(incrementalFiles[j])].patch = EmptyText

\* ---------------------------------------------------------- SpecRoundTrip
\* reconstructPatch applied to a hunk list, parsePatch applied to its result
RoundTripHunks ==
    IncHunks \cup RefHunks \cup { CtxHunk(ns, nl) : ns \in 1..MaxStart, nl \in 0..MaxLines }

RoundTripInputs ==
    /\ rtHunks \in HunkSeqs(RoundTripHunks, MaxHunks)
    /\ rtText = NullText
    /\ rtParsed = [threw |-> FALSE, files |-> <<>>]
    /\ rtPc = "reconstruct"

CallReconstruct ==
    /\ rtPc = "reconstruct"
    /\ rtText' = reconstructPatch(rtHunks)
    /\ rtPc' = "parse"
    /\ UNCHANGED <<rtHunks, rtParsed, ovVars, flVars, mkVars, runVars>>

CallParse ==
    /\ rtPc = "parse"
    /\ rtParsed' = parsePatch(rtText)
    /\ rtPc' = "done"
    /\ UNCHANGED <<rtHunks, rtText, ovVars, flVars, mkVars, runVars>>

NextRoundTrip == CallReconstruct \/ CallParse

InitRoundTrip == RoundTripInputs /\ OverlapIdle /\ FilterIdle /\ MarkerIdle /\ RunIdle

SpecRoundTrip == InitRoundTrip /\ [][NextRoundTrip]_vars

\* number of text lines a hunk list serializes to: one header and the body
\* lines per hunk, nothing between the blocks
RECURSIVE LineCount(_)
LineCount(hunks) ==
    IF hunks = <<>> THEN 0 ELSE 1 + Len(Head(hunks).lines) + LineCount(Tail(hunks))

C12_FetchOrder ==
    /\ Len(fetchLog) <= 2
    /\ fetchLog = <<>> => pc \in {"listPRComments", "failed"}
    /\ pc \in {"getIncremental", "getWholePR", "excluded", "done"} => Len(fetchLog) >= 1
    /\ Len(fetchLog) >= 1 => fetchLog[1] = Request(incrementalBaseCommit, HeadCommit)
    /\ Len(fetchLog) = 2 =>
        /\ fetchLog[2] = Request(BaseCommit, HeadCommit)
        /\ incrementalBaseCommit # BaseCommit
        /\ pc # "getIncremental"
    /\ pc \in {"listPRComments", "getIncremental"} =>
        (incrementalFiles = <<>> /\ changedFiles = <<>> /\ wholePRFiles = <<>>)
    /\ pc = "getWholePR" => (changedFiles = incrementalFiles /\ wholePRFiles = <<>>)
    /\ pc # "done" => filteredDiffs = <<>>
    /\ (pc = "done" /\ incrementalBaseCommit # BaseCommit) =>
        /\ Len(fetchLog) = 2
        /\ \A j \in 1..Len(filteredDiffs) :
            /\ \E i \in 1..Len(changedFiles) : changedFiles[i] = filteredDiffs[j]
            /\ Counterpart(filteredDiffs[j]) # 0

\* C12 witness: an incremental run that asked for both change sets, trimmed a
\* file and filtered the result
C12_Witness ==
    /\ pc = "done"
    /\ Len(fetchLog) = 2
    /\ changedFiles # incrementalFiles
    /\ filteredDiffs # <<>>
    /\ Len(filteredDiffs) < Len(changedFiles)

\* position of a filename in a change set, 0 if it is not there
Position(cs, filename) ==
    LET hits == { i \in 1..Len(cs) : cs[i].filename = filename }
    IN  IF hits = {} THEN 0 ELSE CHOOSE i \in hits : TRUE

\* C13: after an incremental run the list from _excludeMergeOnlyChanges is a
\* subsequence of the incremental change set (its filenames, in its order),
\* every kept entry has a non-empty patch string and otherwise the fields of
\* its incremental entry, and the fetched entries themselves are as fetched.
C13_SubsequenceOfIncremental ==
    Reconciled =>
        /\ \A j \in 1..Len(changedFiles) :
            LET i == Position(incrementalFiles, changedFiles[j].filename)
            IN  /\ i # 0
                /\ ~Falsy(changedFiles[j].patch)
                /\ changedFiles[j].status = incrementalFiles[i].status
                /\ [changedFiles[j] EXCEPT !.patch = incrementalFiles[i].patch]
                       = incrementalFiles[i]
        /\ \A j, k \in 1..Len(changedFiles) :
            j < k => Position(incrementalFiles, changedFiles[j].filename)
                         < Position(incrementalFiles, changedFiles[k].filename)
        /\ \A i \in 1..Len(incrementalFiles) :
            /\ incrementalFiles[i].patch \in IncFilePatches
            /\ incrementalFiles[i].status = "modified"
        /\ \A i \in 1..Len(wholePRFiles) :
            /\ wholePRFiles[i].patch \in PRFilePatches
            /\ wholePRFiles[i].status = "added"

\* C13 witness: of two incremental files out of filename order the first was
\* dropped for a null result and the second kept with a trimmed patch
C13_Witness ==
    /\ Reconciled
    /\ Len(incrementalFiles) = 2 /\ Len(changedFiles) = 1
    /\ incrementalFiles[1].filename = FileNames[2]
    /\ incrementalFiles[2].filename = FileNames[1]
    /\ Counterpart(incrementalFiles[1]) # 0
    /\ HunksOf(incrementalFiles[1].patch) # <<>>
    /\ changedFiles[1].filename = incrementalFiles[2].filename
    /\ changedFiles[1].patch # incrementalFiles[2].patch

====
